---- MODULE Spec2Model ----
(***************************************************************************)
(* Fashion attribute extraction service.                                   *)
(*                                                                         *)
(*   backend/runpod_deepfashion_batch.py  handler: batch pipeline          *)
(*   backend/modal_deepfashion.py         DeepFashionExtractor.analyze and *)
(*                                        analyze_fashion_image            *)
(*   backend/modal_clip_service.py        encode_batch_endpoint            *)
(*                                                                         *)
(* A Python dict is a TLA+ function whose DOMAIN is the set of its keys, a *)
(* Python list is a sequence (Python index i is TLA+ index i + 1), a       *)
(* string that the code splits into words is a sequence of words.          *)
(***************************************************************************)
EXTENDS Integers, Sequences, FiniteSets, TLC

VARIABLES pc, endpoint, event, response, calls, decoded, policiesSeen

vars == <<pc, endpoint, event, response, calls, decoded, policiesSeen>>

(***************************************************************************)
(* Bounds of the model.                                                    *)
(***************************************************************************)
\* largest batch a request carries
MaxBatch == 3
\* largest number of model invocations that fail within one call
MaxFaults == 1
\* largest image list a request to encode_batch_endpoint carries
MaxImages == 70

(***************************************************************************)
(* Python built-ins used by the code.                                      *)
(***************************************************************************)
\* Python's None.  None, the empty dict and the empty string are the values
\* the code's truth tests reject; all three are the empty function here.
None == <<>>

\* an empty dict, {}
EmptyDict == <<>>

\* bool(x) for x a dict, a string, an image or None
Truthy(x) == DOMAIN x # {}

\* a Python list or dict is built once, when the statement that makes it runs:
\* the function f with every element computed
List(f) == f @@ <<>>

\* d.get(k, default)
Get(d, k, default) == IF k \in DOMAIN d THEN d[k] ELSE default

\* s[-1]
Last(s) == s[Len(s)]

\* list.insert mistaken for list.append
ListInsert_append(s, idx, x) == Append(s, x)

\* list.insert(idx, x) with a 0-based idx; an idx past the end appends
ListInsert(s, idx, x) ==
    LET k == IF idx < Len(s) THEN idx ELSE Len(s)
    IN  SubSeq(s, 1, k) \o <<x>> \o SubSeq(s, k + 1, Len(s))

\* the members of a sequence
Range(s) == {s[i] : i \in DOMAIN s}

\* a statement either produces a value or raises an exception
Return(value) == [returned |-> value]
Raise(message) == [raised |-> message]
Raised(outcome) == "raised" \in DOMAIN outcome

\* a value of a type without a get method (None, a str), where the code
\* expects a dict
NotMapping(type_name) == [py_type |-> type_name]
IsMapping(x) == "py_type" \notin DOMAIN x

\* str(e) of the AttributeError that x.get raises on such a value
AttributeError(x) == "'" \o x.py_type \o "' object has no attribute 'get'"

(***************************************************************************)
(* Configuration: the attribute vocabularies and the category gates.       *)
(***************************************************************************)
CATEGORY_LABELS ==
    <<"dress", "top", "shirt", "blouse", "t-shirt", "sweater", "hoodie",
      "jacket", "coat", "pants", "jeans", "shorts", "skirt",
      "shoes", "sneakers", "boots", "sandals", "heels",
      "bag", "backpack", "hat", "scarf", "belt", "sunglasses">>

SLEEVE_LENGTH_LABELS == <<"sleeveless", "short", "long", "three-quarter">>

COLOR_LABELS ==
    <<"black", "white", "gray", "red", "blue", "green", "yellow", "orange",
      "pink", "purple", "brown", "beige", "navy", "burgundy", "cream">>

GENDER_LABELS == <<"men", "women", "boys", "girls", "unisex", "kids">>

PATTERN_LABELS ==
    <<"solid", "striped", "plaid", "floral", "geometric", "dots", "animal">>

NECKLINE_LABELS ==
    <<"round", "v-neck", "collar", "turtleneck", "scoop", "square",
      "off-shoulder">>

LENGTH_LABELS == <<"mini", "knee", "midi", "maxi", "ankle">>

SLEEVE_CATEGORIES ==
    <<"dress", "top", "shirt", "blouse", "t-shirt", "sweater", "hoodie",
      "jacket", "coat">>

NECKLINE_CATEGORIES ==
    <<"dress", "top", "shirt", "blouse", "t-shirt", "sweater">>

\* a length asked of shoes as well
LENGTH_CATEGORIES_withShoes == <<"dress", "skirt", "shoes">>

LENGTH_CATEGORIES == <<"dress", "skirt">>

\* the slot of a prompt template that str.format / the f-string fills in
Slot == "{label}"

CategoryTemplate == <<"a", "photo", "of", "a", Slot>>
ColorTemplate    == <<Slot, "clothing">>
PatternTemplate  == <<Slot, "pattern", "clothing">>
GenderTemplate   == <<Slot, "fashion">>
SleeveTemplate   == <<Slot, "sleeve", "clothing">>
NecklineTemplate == <<Slot, "neckline">>
LengthTemplate   == <<Slot, "length", "dress">>

\* prompt_template.format(label=label): the prompt as its sequence of words
Format(template, label) ==
    List([i \in DOMAIN template |->
            IF template[i] = Slot THEN label ELSE template[i]])

\* [template.format(label=l) for l in labels]
Prompts(template, labels) ==
    List([k \in DOMAIN labels |-> Format(template, labels[k])])

(***************************************************************************)
(* The pretrained scorer, an external collaborator.  An image is known by  *)
(* what it shows and by how sharply it shows it; the scorer rates a prompt  *)
(* by the number of its words that describe the image.                     *)
(***************************************************************************)
ImageNames == {"img_dress", "img_jacket", "img_skirt", "img_shoes"}

\* a decoded RGB image
Image(name) == [name |-> name]

Shows ==
    [img_dress  |-> {"dress", "black", "solid", "short", "v-neck", "midi",
                     "women"},
     img_jacket |-> {"jacket", "navy", "plaid", "long", "collar", "knee",
                     "men"},
     img_skirt  |-> {"skirt", "red", "floral", "sleeveless", "round", "mini",
                     "girls"},
     img_shoes  |-> {"shoes", "white", "striped", "three-quarter", "square",
                     "ankle", "unisex"}]

Sharpness ==
    [img_dress |-> 8, img_jacket |-> 6, img_skirt |-> 5, img_shoes |-> 4]

\* logits_per_image[img][prompt]
Logit(img, prompt) ==
    LET shown == Shows[img.name]
    IN  1 + Sharpness[img.name]
            * Cardinality({i \in DOMAIN prompt : prompt[i] \in shown})

RECURSIVE SumTo(_, _)
SumTo(f, n) == IF n = 0 THEN 0 ELSE f[n] + SumTo(f, n - 1)

\* logits_per_image.softmax(dim=1)[img], in percent: a distribution over the
\* prompts that keeps the order of the logits
Probs(img, text_prompts) ==
    LET logits == List([k \in DOMAIN text_prompts |->
                           Logit(img, text_prompts[k])])
        total  == SumTo(logits, Len(text_prompts))
    IN  List([k \in DOMAIN text_prompts |-> (100 * logits[k]) \div total])

\* probs.argmax(): the first index that holds the maximum; best is the
\* argmax of p[1..k-1]
RECURSIVE ArgMaxFrom(_, _, _)
ArgMaxFrom(p, k, best) ==
    IF k > Len(p) THEN best
    ELSE ArgMaxFrom(p, k + 1, IF p[k] > p[best] THEN k ELSE best)

ArgMax(p) == ArgMaxFrom(p, 2, 1)

(***************************************************************************)
(* runpod_deepfashion_batch.py: helper functions.                          *)
(***************************************************************************)
\* an encoded payload is <<"b64", name>> when it holds the bytes of an image,
\* anything else (a corrupt payload, None for a missing "data") fails
decode_image(image_data) ==
    IF /\ DOMAIN image_data = 1..2
       /\ image_data[1] = "b64"
       /\ image_data[2] \in ImageNames
    THEN Image(image_data[2])
    ELSE None

\* ok is whether processor(...) and model(...) ran without raising
batch_classify(images, text_prompts, ok) ==
    IF ok
    THEN List([i \in DOMAIN images |->
            LET probs   == Probs(images[i], text_prompts)
                top_idx == ArgMax(probs)
            IN  [label      |-> Last(text_prompts[top_idx]),
                 confidence |-> probs[top_idx]]])
    ELSE List([i \in DOMAIN images |->
                  [label |-> "unknown", confidence |-> 0]])

\* {attribute_name: label, 'confidence': confidence}
AttrResult(attribute_name, result) ==
    (attribute_name :> result.label) @@ ("confidence" :> result.confidence)

extract_category_batch(images, ok) ==
    LET results == batch_classify(images,
                                  Prompts(CategoryTemplate, CATEGORY_LABELS), ok)
    IN  List([i \in DOMAIN results |-> AttrResult("category", results[i])])

extract_color_batch(images, ok) ==
    LET results == batch_classify(images,
                                  Prompts(ColorTemplate, COLOR_LABELS), ok)
    IN  List([i \in DOMAIN results |-> AttrResult("color", results[i])])

extract_pattern_batch(images, ok) ==
    LET results == batch_classify(images,
                                  Prompts(PatternTemplate, PATTERN_LABELS), ok)
    IN  List([i \in DOMAIN results |-> AttrResult("pattern", results[i])])

\* the category gate left out: every index is valid
valid_indices_ungated(categories, valid_categories) ==
    List([i \in DOMAIN categories |-> i])

\* [i for i, cat in enumerate(categories) if cat in valid_categories],
\* as indices of the sequence (1-based)
valid_indices(categories, valid_categories) ==
    SelectSeq(List([i \in DOMAIN categories |-> i]),
              LAMBDA i : categories[i] \in Range(valid_categories))

\* [images[i] for i in valid_indices]
valid_images(images, vi) == List([idx \in DOMAIN vi |-> images[vi[idx]]])

\* the scatter loop writing full_results[idx] where it should write
\* full_results[result_idx]
extract_conditional_attribute_misplaced(images, categories, attribute_name, labels, valid_categories, prompt_template, ok) ==
    LET vi == valid_indices(categories, valid_categories)
        results == batch_classify(valid_images(images, vi),
                                  Prompts(prompt_template, labels), ok)
    IN  IF vi = <<>>
        THEN List([i \in DOMAIN images |-> None])
        ELSE List([i \in DOMAIN images |->
                IF i \in DOMAIN vi
                THEN AttrResult(attribute_name, results[i])
                ELSE None])

extract_conditional_attribute(images, categories, attribute_name, labels, valid_categories, prompt_template, ok) ==
    LET vi == valid_indices(categories, valid_categories)
        results == batch_classify(valid_images(images, vi),
                                  Prompts(prompt_template, labels), ok)
    IN  IF vi = <<>>
        THEN List([i \in DOMAIN images |-> None])
        ELSE List([i \in DOMAIN images |->
                IF \E idx \in DOMAIN vi : vi[idx] = i
                THEN LET idx == CHOOSE idx \in DOMAIN vi : vi[idx] = i
                     IN  AttrResult(attribute_name, results[idx])
                ELSE None])

(***************************************************************************)
(* runpod_deepfashion_batch.py: handler.                                   *)
(***************************************************************************)
\* the attributes whose extraction is one model invocation of the batch path
BatchAttrs ==
    {"category", "color", "pattern", "sleeveLength", "neckline", "length"}

\* f"image_{i}"
DefaultId(i) == "image_" \o ToString(i)

\* the decode loop from Python index i on; acc holds images, image_ids and
\* failed_indices (pairs of the Python index and the id), and the message of
\* the exception that ended the loop, if item.get raised
RECURSIVE DecodeLoop(_, _, _)
DecodeLoop(image_items, i, acc) ==
    IF i >= Len(image_items)
    THEN acc
    ELSE LET item       == image_items[i + 1]
             image_data == Get(item, "data", None)
             image_id   == Get(item, "id", DefaultId(i))
             image      == decode_image(image_data)
         IN  IF ~IsMapping(item)
             THEN [acc EXCEPT !.raised = <<AttributeError(item)>>]
             ELSE
             DecodeLoop(image_items, i + 1,
                IF Truthy(image)
                THEN [acc EXCEPT !.images = Append(@, image),
                                 !.image_ids = Append(@, image_id),
                                 !.decoded = Append(@, image_data)]
                ELSE [acc EXCEPT !.failed_indices = Append(@, <<i, image_id>>),
                                 !.decoded = Append(@, image_data)])

\* the key and value an extractor's result adds to a dict, nothing for None
Entry(result, key, field) ==
    IF Truthy(result) THEN key :> result[field] ELSE EmptyDict

\* the neckline block copied from the sleeve block with sleeve_results left in
CompileResult_sleeveAsNeckline(i, image_ids, category_results, color_results, pattern_results, sleeve_results, neckline_results, length_results) ==
    LET attributes ==
            [category |-> category_results[i]["category"],
             color    |-> color_results[i]["color"],
             pattern  |-> pattern_results[i]["pattern"]]
            @@ Entry(sleeve_results[i], "sleeveLength", "sleeveLength")
            @@ Entry(sleeve_results[i], "neckline", "sleeveLength")
            @@ Entry(length_results[i], "length", "length")
        confidence ==
            [category |-> category_results[i]["confidence"],
             color    |-> color_results[i]["confidence"],
             pattern  |-> pattern_results[i]["confidence"]]
            @@ Entry(sleeve_results[i], "sleeveLength", "confidence")
            @@ Entry(sleeve_results[i], "neckline", "confidence")
            @@ Entry(length_results[i], "length", "confidence")
    IN  [id |-> image_ids[i], success |-> TRUE,
         attributes |-> attributes, confidence |-> confidence]

\* results.append({...}) for image i of the decoded images
CompileResult(i, image_ids, category_results, color_results, pattern_results, sleeve_results, neckline_results, length_results) ==
    LET attributes ==
            [category |-> category_results[i]["category"],
             color    |-> color_results[i]["color"],
             pattern  |-> pattern_results[i]["pattern"]]
            @@ Entry(sleeve_results[i], "sleeveLength", "sleeveLength")
            @@ Entry(neckline_results[i], "neckline", "neckline")
            @@ Entry(length_results[i], "length", "length")
        confidence ==
            [category |-> category_results[i]["confidence"],
             color    |-> color_results[i]["confidence"],
             pattern  |-> pattern_results[i]["confidence"]]
            @@ Entry(sleeve_results[i], "sleeveLength", "confidence")
            @@ Entry(neckline_results[i], "neckline", "confidence")
            @@ Entry(length_results[i], "length", "confidence")
    IN  [id |-> image_ids[i], success |-> TRUE,
         attributes |-> attributes, confidence |-> confidence]

\* for idx, image_id in failed_indices: results.insert(idx, {...})
RECURSIVE AddFailed(_, _, _)
AddFailed(results, failed_indices, k) ==
    IF k > Len(failed_indices)
    THEN results
    ELSE AddFailed(
            ListInsert(results, failed_indices[k][1],
                       [id |-> failed_indices[k][2], success |-> FALSE,
                        error |-> "Failed to decode image"]),
            failed_indices, k + 1)

\* the early return on an empty valid_indices left out: the classifier is
\* invoked on an empty sub-batch
ConditionalCall_noEarlyReturn(images, categories, attribute_name, valid_categories, ok) ==
    LET vi == valid_indices(categories, valid_categories)
    IN  <<[attr |-> attribute_name, images |-> valid_images(images, vi),
           ok |-> ok]>>

\* the batch_classify invocation of a conditional extractor, if it makes one
ConditionalCall(images, categories, attribute_name, valid_categories, ok) ==
    LET vi == valid_indices(categories, valid_categories)
    IN  IF vi = <<>>
        THEN <<>>
        ELSE <<[attr |-> attribute_name, images |-> valid_images(images, vi),
                ok |-> ok]>>

\* the intake check left out
NoImages_never(image_items) == FALSE

\* if not image_items
NoImages(image_items) == ~Truthy(image_items)

\* every item counted as successful
Stats_allSuccessful(image_items, images, failed_indices) ==
    [total      |-> Len(image_items),
     successful |-> Len(image_items),
     failed     |-> Len(failed_indices)]

\* the "stats" of a response, without its wall-clock fields
\* (processing_time, images_per_second)
Stats(image_items, images, failed_indices) ==
    [total      |-> Len(image_items),
     successful |-> Len(images),
     failed     |-> Len(failed_indices)]

\* categories that do not come from this call's category pass
Categories_notOfThisPass(category_results) ==
    List([i \in DOMAIN category_results |-> "dress"])

\* categories = [r['category'] for r in category_results]
Categories(category_results) ==
    List([i \in DOMAIN category_results |-> category_results[i]["category"]])

\* the handler lets the exception out
Except_propagates(e, decoded_so_far) ==
    [response |-> Raise(e), calls |-> <<>>, decoded |-> decoded_so_far]

\* except Exception as e: return {"error": str(e), "results": []}
Except(e, decoded_so_far) ==
    [response |-> [error |-> e, results |-> <<>>],
     calls |-> <<>>, decoded |-> decoded_so_far]

\* image_items = event.get("input", {}).get("images", [])
ImageItems(ev) ==
    IF ~IsMapping(ev)
    THEN Raise(AttributeError(ev))
    ELSE IF ~IsMapping(Get(ev, "input", EmptyDict))
    THEN Raise(AttributeError(Get(ev, "input", EmptyDict)))
    ELSE Return(Get(Get(ev, "input", EmptyDict), "images", <<>>))

\* the try block of handler from the intake check on
Pipeline(image_items, faults) ==
    LET dec == DecodeLoop(image_items, 0,
                          [images |-> <<>>, image_ids |-> <<>>,
                           failed_indices |-> <<>>, decoded |-> <<>>,
                           raised |-> <<>>])
        images         == dec.images
        image_ids      == dec.image_ids
        failed_indices == dec.failed_indices
        Ok(attr) == attr \notin faults
        category_results == extract_category_batch(images, Ok("category"))
        categories == Categories(category_results)
        color_results   == extract_color_batch(images, Ok("color"))
        pattern_results == extract_pattern_batch(images, Ok("pattern"))
        sleeve_results ==
            extract_conditional_attribute(images, categories, "sleeveLength",
                SLEEVE_LENGTH_LABELS, SLEEVE_CATEGORIES, SleeveTemplate,
                Ok("sleeveLength"))
        neckline_results ==
            extract_conditional_attribute(images, categories, "neckline",
                NECKLINE_LABELS, NECKLINE_CATEGORIES, NecklineTemplate,
                Ok("neckline"))
        length_results ==
            extract_conditional_attribute(images, categories, "length",
                LENGTH_LABELS, LENGTH_CATEGORIES, LengthTemplate,
                Ok("length"))
        compiled == List([i \in DOMAIN images |->
                        CompileResult(i, image_ids, category_results,
                                      color_results, pattern_results,
                                      sleeve_results, neckline_results,
                                      length_results)])
        results == AddFailed(compiled, failed_indices, 1)
    IN  IF NoImages(image_items)
        THEN [response |-> [error |-> "No images provided", results |-> <<>>],
              calls |-> <<>>, decoded |-> <<>>]
        ELSE IF Truthy(dec.raised)
        THEN Except(dec.raised[1], dec.decoded)
        ELSE IF ~Truthy(images)
        THEN [response |-> [error |-> "All images failed to decode",
                            results |-> <<>>],
              calls |-> <<>>, decoded |-> dec.decoded]
        ELSE [response |->
                [results |-> results,
                 stats   |-> Stats(image_items, images, failed_indices)],
              calls |->
                <<[attr |-> "category", images |-> images,
                   ok |-> Ok("category")],
                  [attr |-> "color", images |-> images, ok |-> Ok("color")],
                  [attr |-> "pattern", images |-> images,
                   ok |-> Ok("pattern")]>>
                \o ConditionalCall(images, categories, "sleeveLength",
                                   SLEEVE_CATEGORIES, Ok("sleeveLength"))
                \o ConditionalCall(images, categories, "neckline",
                                   NECKLINE_CATEGORIES, Ok("neckline"))
                \o ConditionalCall(images, categories, "length",
                                   LENGTH_CATEGORIES, Ok("length")),
              decoded |-> dec.decoded]

\* handler(event), with the model invocations of the attributes in faults
\* raising: the response it returns, the batch_classify invocations it makes
\* (calls) and the payloads it hands to decode_image (decoded), in order.
handler(ev, faults) ==
    IF Raised(ImageItems(ev))
    THEN Except(ImageItems(ev).raised, <<>>)
    ELSE Pipeline(ImageItems(ev).returned, faults)

(***************************************************************************)
(* modal_deepfashion.py: DeepFashionExtractor and analyze_fashion_image.   *)
(* A call of analyze either returns a value or raises.                     *)
(***************************************************************************)
\* base64.b64decode and Image.open fail on the payloads decode_image fails
\* on; mime_type is not read
preprocess_image(image_data, mime_type) ==
    IF /\ DOMAIN image_data = 1..2
       /\ image_data[1] = "b64"
       /\ image_data[2] \in ImageNames
    THEN Return(Image(image_data[2]))
    ELSE Raise("Failed to preprocess image")

\* the body every extract_* method repeats: score the image against the
\* prompts and report labels[top_idx]
ZeroShot(image, attribute_name, labels, template) ==
    LET probs   == Probs(image, Prompts(template, labels))
        top_idx == ArgMax(probs)
    IN  (attribute_name :> labels[top_idx])
        @@ ("confidence" :> probs[top_idx])

extract_category(image) ==
    ZeroShot(image, "category", CATEGORY_LABELS, CategoryTemplate)

extract_color(image) ==
    ZeroShot(image, "color", COLOR_LABELS, ColorTemplate)

extract_gender(image) ==
    ZeroShot(image, "gender", GENDER_LABELS, GenderTemplate)

extract_pattern(image) ==
    ZeroShot(image, "pattern", PATTERN_LABELS, PatternTemplate)

extract_sleeve_length(image, category) ==
    IF category \notin {"dress", "top", "shirt", "blouse", "t-shirt",
                        "sweater", "hoodie", "jacket", "coat"}
    THEN None
    ELSE ZeroShot(image, "sleeveLength", SLEEVE_LENGTH_LABELS, SleeveTemplate)

extract_neckline(image, category) ==
    IF category \notin {"dress", "top", "shirt", "blouse", "t-shirt",
                        "sweater"}
    THEN None
    ELSE ZeroShot(image, "neckline", NECKLINE_LABELS, NecklineTemplate)

extract_length(image, category) ==
    IF category \notin {"dress", "skirt"}
    THEN None
    ELSE ZeroShot(image, "length", LENGTH_LABELS, LengthTemplate)

\* the attributes analyze extracts, in the order of its model invocations
AnalyzeAttrs ==
    <<"category", "color", "gender", "pattern", "sleeveLength", "neckline",
      "length">>

\* the results dict analyze compiles
AnalyzeResults(category_result, color_result, gender_result, pattern_result, sleeve_result, neckline_result, length_result) ==
    [category   |-> category_result["category"],
     color      |-> color_result["color"],
     gender     |-> gender_result["gender"],
     pattern    |-> pattern_result["pattern"],
     confidence |->
        [category |-> category_result["confidence"],
         color    |-> color_result["confidence"],
         gender   |-> gender_result["confidence"],
         pattern  |-> pattern_result["confidence"]]
        @@ Entry(sleeve_result, "sleeveLength", "confidence")
        @@ Entry(neckline_result, "neckline", "confidence")
        @@ Entry(length_result, "length", "confidence")]
    @@ Entry(sleeve_result, "sleeveLength", "sleeveLength")
    @@ Entry(neckline_result, "neckline", "neckline")
    @@ Entry(length_result, "length", "length")

\* the model invocations analyze makes when none raises: a conditional
\* extractor invokes the model unless it returns None
Invoked(sleeve_result, neckline_result, length_result) ==
    SelectSeq(AnalyzeAttrs, LAMBDA a :
        CASE a = "sleeveLength" -> Truthy(sleeve_result)
          [] a = "neckline"     -> Truthy(neckline_result)
          [] a = "length"       -> Truthy(length_result)
          [] OTHER              -> TRUE)

\* the prefix of invoked that ends with the first invocation that raises
Made(invoked, failing) ==
    IF failing = {}
    THEN invoked
    ELSE SubSeq(invoked, 1, CHOOSE k \in failing : \A j \in failing : k <= j)

\* the outcome of the try block once the invocations are known
AnalyzeOutcome(image, image_data, faults, invoked, results) ==
    LET failing == {k \in DOMAIN invoked : invoked[k] \in faults}
        made    == Made(invoked, failing)
    IN  [outcome |-> IF failing # {}
                     THEN Raise("model invocation failed")
                     ELSE Return(results),
         calls   |-> List([k \in DOMAIN made |->
                              [attr |-> made[k], images |-> <<image>>,
                               ok |-> made[k] \notin faults]]),
         decoded |-> <<image_data>>]

\* the extractions of analyze on a preprocessed image
AnalyzeImage(image, image_data, faults) ==
    LET category_result == extract_category(image)
        category        == category_result["category"]
        sleeve_result   == extract_sleeve_length(image, category)
        neckline_result == extract_neckline(image, category)
        length_result   == extract_length(image, category)
    IN  AnalyzeOutcome(image, image_data, faults,
            Invoked(sleeve_result, neckline_result, length_result),
            AnalyzeResults(category_result, extract_color(image),
                           extract_gender(image), extract_pattern(image),
                           sleeve_result, neckline_result, length_result))

\* analyze(image_data, mime_type), with the model invocations of the
\* attributes in faults raising: its outcome and the model invocations it
\* makes (calls) up to the one that raises
analyze(image_data, mime_type, faults) ==
    LET pre == preprocess_image(image_data, mime_type)
    IN  IF Raised(pre)
        THEN [outcome |-> pre, calls |-> <<>>, decoded |-> <<image_data>>]
        ELSE AnalyzeImage(pre.returned, image_data, faults)

\* analyze_fashion_image(request_data): extractor.analyze.remote runs analyze
analyze_fashion_image(request_data, faults) ==
    LET image_data == Get(request_data, "image", None)
        mime_type  == Get(request_data, "mimeType", "image/jpeg")
        run        == analyze(image_data, mime_type, faults)
    IN  IF ~Truthy(image_data)
        THEN [response |-> [success |-> FALSE,
                            error |-> "No image data provided"],
              calls |-> <<>>, decoded |-> <<>>]
        ELSE IF Raised(run.outcome)
        THEN [response |-> [success |-> FALSE, error |-> run.outcome.raised],
              calls |-> run.calls, decoded |-> run.decoded]
        ELSE [response |-> [success |-> TRUE,
                            attributes |-> run.outcome.returned],
              calls |-> run.calls, decoded |-> run.decoded]

(***************************************************************************)
(* modal_clip_service.py: CLIPService.encode_image_batch and               *)
(* encode_batch_endpoint.  A base64 image is the number of the picture it  *)
(* encodes and whether its bytes are an image at all.                      *)
(***************************************************************************)
batch_size == 32

\* the normalised image features of one picture
Embedding(img_b64) == [embedding_of |-> img_b64.picture]

\* encode_image_batch(images_base64): base64.b64decode / Image.open raise on
\* bytes that are no image, torch.stack raises on an empty list
encode_image_batch(images_base64) ==
    IF images_base64 = <<>>
    THEN Raise("stack expects a non-empty TensorList")
    ELSE IF \E i \in DOMAIN images_base64 : ~images_base64[i].is_image
    THEN Raise("cannot identify image file")
    ELSE Return(List([i \in DOMAIN images_base64 |->
                        Embedding(images_base64[i])]))

\* a slice that takes the element at the stop index as well
Slice_inclusive(s, start, stop) ==
    SubSeq(s, start + 1, IF stop + 1 < Len(s) THEN stop + 1 ELSE Len(s))

\* s[start:stop] for 0 <= start <= stop
Slice(s, start, stop) ==
    SubSeq(s, start + 1, IF stop < Len(s) THEN stop ELSE Len(s))

\* the loop over range(0, len(images), batch_size) from index i on; acc holds
\* all_embeddings, the batches handed to encode_image_batch.remote so far
\* and the message of the exception that ended the loop, if a call raised
RECURSIVE EncodeLoop(_, _, _)
EncodeLoop(images, i, acc) ==
    IF i >= Len(images)
    THEN acc
    ELSE IF Raised(encode_image_batch(Slice(images, i, i + batch_size)))
    THEN [acc EXCEPT
            !.calls = Append(@, Slice(images, i, i + batch_size)),
            !.raised = <<encode_image_batch(
                            Slice(images, i, i + batch_size)).raised>>]
    ELSE EncodeLoop(images, i + batch_size,
            [acc EXCEPT
                !.all_embeddings = @ \o encode_image_batch(
                            Slice(images, i, i + batch_size)).returned,
                !.calls = Append(@, Slice(images, i, i + batch_size))])

\* the response of encode_batch_endpoint once the loop is over: the web
\* endpoint has no try block, an exception of a remote call leaves it
EncodeResponse(run) ==
    [response |-> IF Truthy(run.raised)
                  THEN Raise(run.raised[1])
                  ELSE [success    |-> TRUE,
                        embeddings |-> run.all_embeddings,
                        count      |-> Len(run.all_embeddings)],
     calls |-> run.calls]

\* encode_batch_endpoint(request): its response and the batches it hands to
\* encode_image_batch.remote (calls), in order
encode_batch_endpoint(request) ==
    EncodeResponse(EncodeLoop(Get(request, "images", <<>>), 0,
        [all_embeddings |-> <<>>, calls |-> <<>>, raised |-> <<>>]))

(***************************************************************************)
(* The requests and the faults of the environment.                         *)
(***************************************************************************)
Payloads == {<<"b64", n>> : n \in ImageNames} \cup {<<"corrupt">>}

\* an ImageItem: "data" with or without a caller-supplied "id"
Items == {[data |-> p] : p \in Payloads}
         \cup {[data |-> <<"b64", "img_dress">>, id |-> "sku"],
               [data |-> <<"corrupt">>, id |-> "sku"]}

Batches == UNION {[1..n -> Items] : n \in 1..MaxBatch}

Events == {EmptyDict, [input |-> EmptyDict], [input |-> [images |-> <<>>]]}
          \cup {[input |-> [images |-> b]] : b \in Batches}

\* the request bodies of analyze_fashion_image
Requests == {EmptyDict, [mimeType |-> "image/png"]}
            \cup {[image |-> p] : p \in Payloads}
            \cup {[image |-> p, mimeType |-> "image/png"] : p \in Payloads}

\* events of any shape: an item, the input or the event itself may be a
\* value that is no dict
AnyItems == {[data |-> <<"b64", "img_dress">>],
             [data |-> <<"b64", "img_shoes">>, id |-> "sku"],
             [data |-> <<"corrupt">>],
             NotMapping("str")}

AnyBatches == UNION {[1..n -> AnyItems] : n \in 1..MaxBatch}

AnyEvents == {NotMapping("NoneType"), NotMapping("str"), EmptyDict,
              [input |-> NotMapping("NoneType")], [input |-> EmptyDict],
              [input |-> [images |-> <<>>]]}
             \cup {[input |-> [images |-> b]] : b \in AnyBatches}

\* n distinct pictures, the one at position bad (if any) with bytes that
\* are no image
ClipImages(n, bad) ==
    List([i \in 1..n |-> [picture |-> i, is_image |-> i # bad]])

\* the request bodies of encode_batch_endpoint
ClipRequests ==
    {EmptyDict}
    \cup {[images |-> ClipImages(n, bad)] : n \in 0..MaxImages,
                                              bad \in 0..MaxImages}

\* the model invocations that raise during one call
FaultSets(attrs) == {f \in SUBSET attrs : Cardinality(f) <= MaxFaults}

\* how a call dealt with a model invocation that raised, if one did
Policy(failed, degraded) ==
    IF ~failed THEN {}
    ELSE IF degraded THEN {"placeholder"} ELSE {"propagate"}

(***************************************************************************)
(* The service: one call at a time per worker.                             *)
(***************************************************************************)
Init ==
    /\ pc = "idle"
    /\ endpoint = "none"
    /\ event = EmptyDict
    /\ response = EmptyDict
    /\ calls = <<>>
    /\ decoded = <<>>
    /\ policiesSeen = {}

\* the RunPod worker runs handler on an event
Handler ==
    /\ pc = "idle"
    /\ \E ev \in Events, faults \in FaultSets(BatchAttrs) :
          \E run \in {handler(ev, faults)} :
              /\ event' = ev
              /\ response' = run.response
              /\ calls' = run.calls
              /\ decoded' = run.decoded
              /\ policiesSeen' = policiesSeen \cup
                    Policy(\E k \in DOMAIN run.calls : ~run.calls[k].ok,
                           "stats" \in DOMAIN run.response)
    /\ pc' = "done"
    /\ endpoint' = "handler"

\* the RunPod worker runs handler on an event of any shape
HandlerAnyEvent ==
    /\ pc = "idle"
    /\ \E ev \in AnyEvents, faults \in FaultSets(BatchAttrs) :
          \E run \in {handler(ev, faults)} :
              /\ event' = ev
              /\ response' = run.response
              /\ calls' = run.calls
              /\ decoded' = run.decoded
              /\ policiesSeen' = policiesSeen \cup
                    Policy(\E k \in DOMAIN run.calls : ~run.calls[k].ok,
                           "stats" \in DOMAIN run.response)
    /\ pc' = "done"
    /\ endpoint' = "handler"

\* the web endpoint runs encode_batch_endpoint on a request body
EncodeBatch ==
    /\ pc = "idle"
    /\ \E request \in ClipRequests :
          \E run \in {encode_batch_endpoint(request)} :
              /\ event' = request
              /\ response' = run.response
              /\ calls' = run.calls
    /\ decoded' = <<>>
    /\ pc' = "done"
    /\ endpoint' = "encode_batch_endpoint"
    /\ UNCHANGED policiesSeen

\* a caller runs DeepFashionExtractor.analyze
Analyze ==
    /\ pc = "idle"
    /\ \E image_data \in Payloads, faults \in FaultSets(Range(AnalyzeAttrs)) :
          \E run \in {analyze(image_data, "image/jpeg", faults)} :
              /\ event' = [image_data |-> image_data]
              /\ response' = run.outcome
              /\ calls' = run.calls
              /\ decoded' = run.decoded
              /\ policiesSeen' = policiesSeen \cup
                    Policy(\E k \in DOMAIN run.calls : ~run.calls[k].ok,
                           ~Raised(run.outcome))
    /\ pc' = "done"
    /\ endpoint' = "analyze"

\* the web endpoint runs analyze_fashion_image on a request body
AnalyzeFashionImage ==
    /\ pc = "idle"
    /\ \E request_data \in Requests, faults \in FaultSets(Range(AnalyzeAttrs)) :
          \E run \in {analyze_fashion_image(request_data, faults)} :
              /\ event' = request_data
              /\ response' = run.response
              /\ calls' = run.calls
              /\ decoded' = run.decoded
              /\ policiesSeen' = policiesSeen \cup
                    Policy(\E k \in DOMAIN run.calls : ~run.calls[k].ok,
                           run.response.success)
    /\ pc' = "done"
    /\ endpoint' = "analyze_fashion_image"

\* the worker is ready for its next call
Reset ==
    /\ pc = "done"
    /\ pc' = "idle"
    /\ endpoint' = "none"
    /\ event' = EmptyDict
    /\ response' = EmptyDict
    /\ calls' = <<>>
    /\ decoded' = <<>>
    /\ UNCHANGED policiesSeen

Next == Handler \/ Analyze \/ AnalyzeFashionImage \/ Reset

Spec == Init /\ [][Next]_vars

\* the worker alone, fed events of any shape
NextAnyEvent == HandlerAnyEvent \/ Reset

SpecAnyEvent == Init /\ [][NextAnyEvent]_vars

\* the CLIP service, a deployment of its own
NextClip == EncodeBatch \/ Reset

SpecClip == Init /\ [][NextClip]_vars

(***************************************************************************)
(* What the properties below read off a state.                             *)
(***************************************************************************)
HandlerDone == pc = "done" /\ endpoint = "handler"
AnalyzeDone == pc = "done" /\ endpoint = "analyze"
EndpointDone == pc = "done" /\ endpoint = "analyze_fashion_image"

\* the image list of the handler's event
RequestItems == Get(Get(event, "input", EmptyDict), "images", <<>>)

HasStats(resp) == "stats" \in DOMAIN resp

\* whether item i of the request decodes
Decodes(i) == Truthy(decode_image(Get(RequestItems[i], "data", None)))

\* the attributes whose model invocation raised in this call
FaultsOf(log) == {log[k].attr : k \in {j \in DOMAIN log : ~log[j].ok}}

\* the valid-category sets of the conditional attributes, as the design
\* tabulates them
ConditionalAttrs == {"sleeveLength", "neckline", "length"}

ValidCategories(a) ==
    CASE a = "sleeveLength" -> {"dress", "top", "shirt", "blouse", "t-shirt",
                                "sweater", "hoodie", "jacket", "coat"}
      [] a = "neckline"     -> {"dress", "top", "shirt", "blouse", "t-shirt",
                                "sweater"}
      [] a = "length"       -> {"dress", "skirt"}

\* the vocabulary of an attribute
Vocabulary(a) ==
    CASE a = "category"     -> Range(CATEGORY_LABELS)
      [] a = "color"        -> Range(COLOR_LABELS)
      [] a = "pattern"      -> Range(PATTERN_LABELS)
      [] a = "gender"       -> Range(GENDER_LABELS)
      [] a = "sleeveLength" -> Range(SLEEVE_LENGTH_LABELS)
      [] a = "neckline"     -> Range(NECKLINE_LABELS)
      [] a = "length"       -> Range(LENGTH_LABELS)

\* the attribute set of a successful entry of a batch response
EntrySet(e) == [attributes |-> e.attributes, confidence |-> e.confidence]

\* the attribute set held by the results dict of analyze
ResultsSet(r) ==
    [attributes |-> [k \in DOMAIN r \ {"confidence"} |-> r[k]],
     confidence |-> r["confidence"]]

\* the attribute sets of the successful entries of the batch response
BatchSets ==
    IF HandlerDone /\ HasStats(response)
    THEN {EntrySet(response.results[i]) :
            i \in {j \in DOMAIN response.results : response.results[j].success}}
    ELSE {}

\* the attribute set the single-image path returned
SingleSets ==
    IF AnalyzeDone /\ ~Raised(response)
    THEN {ResultsSet(response.returned)}
    ELSE IF EndpointDone /\ response.success
    THEN {ResultsSet(response.attributes)}
    ELSE {}

\* the response of handler to a batch of this one item, under the faults of
\* the current call
Alone(item) ==
    handler([input |-> [images |-> <<item>>]], FaultsOf(calls)).response

(***************************************************************************)
(* C1: every non-empty batch of N items yields N results, results[i]       *)
(* carrying the id of item i or the positional default "image_<i>", for    *)
(* every pattern of decode failures, all items failing included.           *)
(* The code returns an empty results list when every item fails.           *)
(***************************************************************************)
C1_ResultsAlignedWithInput ==
    (HandlerDone /\ Truthy(RequestItems)) =>
        /\ Len(response.results) = Len(RequestItems)
        /\ \A i \in DOMAIN RequestItems :
              response.results[i].id
                  = Get(RequestItems[i], "id", DefaultId(i - 1))

(***************************************************************************)
(* C2: in the batch pipeline the label of every attribute whose classifier *)
(* call succeeded is a member of that attribute's vocabulary.              *)
(* The code reports the last word of the winning prompt, which is the      *)
(* label only for the category template.                                   *)
(***************************************************************************)
C2_LabelsInVocabulary ==
    \A s \in BatchSets :
        \A a \in DOMAIN s.attributes :
            a \notin FaultsOf(calls) => s.attributes[a] \in Vocabulary(a)

(***************************************************************************)
(* C3: in every successful result, batch or single-image, a conditional    *)
(* attribute is a key of the attributes and of the confidence map exactly  *)
(* when the extracted category is in the attribute's valid-category set.   *)
(***************************************************************************)
C3_ConditionalIffValidCategory ==
    \A s \in BatchSets \cup SingleSets :
        \A a \in ConditionalAttrs :
            /\ a \in DOMAIN s.attributes
                  <=> s.attributes["category"] \in ValidCategories(a)
            /\ a \in DOMAIN s.confidence
                  <=> s.attributes["category"] \in ValidCategories(a)

\* a batch result for a jacket: sleeveLength present, neckline and length not
C3_Witness ==
    \E s \in BatchSets :
        /\ s.attributes["category"] = "jacket"
        /\ "sleeveLength" \in DOMAIN s.attributes
        /\ "neckline" \notin DOMAIN s.attributes
        /\ "length" \notin DOMAIN s.confidence

(***************************************************************************)
(* C4: when every item of a non-empty batch fails to decode, the response  *)
(* carries stats with total = N, successful = 0 and failed = N.            *)
(* The code returns an error response without stats.                       *)
(***************************************************************************)
C4_AllFailedCarriesStats ==
    (/\ HandlerDone
     /\ Truthy(RequestItems)
     /\ \A i \in DOMAIN RequestItems : ~Decodes(i)) =>
        /\ HasStats(response)
        /\ response.stats = [total      |-> Len(RequestItems),
                             successful |-> 0,
                             failed     |-> Len(RequestItems)]

(***************************************************************************)
(* C5: in a batch where at least one item decodes, results[i] is the       *)
(* failure entry "Failed to decode image" exactly when item i failed to    *)
(* decode, and every other entry is a success whose attribute set is the   *)
(* one handler computes for that item on its own.                          *)
(***************************************************************************)
C5_DecodeFailureIsolated ==
    (HandlerDone /\ \E i \in DOMAIN RequestItems : Decodes(i)) =>
        /\ HasStats(response)
        /\ DOMAIN response.results = DOMAIN RequestItems
        /\ \A i \in DOMAIN RequestItems :
              LET e == response.results[i]
              IN  IF Decodes(i)
                  THEN /\ e.success
                       /\ "error" \notin DOMAIN e
                       /\ EntrySet(e)
                            = EntrySet(Alone(RequestItems[i]).results[1])
                  ELSE /\ ~e.success
                       /\ e.error = "Failed to decode image"
                       /\ "attributes" \notin DOMAIN e

\* three items, the second corrupt, the other two of different categories
C5_Witness ==
    /\ HandlerDone
    /\ Len(RequestItems) = 3
    /\ Decodes(1) /\ ~Decodes(2) /\ Decodes(3)
    /\ response.results[1].success /\ response.results[3].success
    /\ ~response.results[2].success
    /\ response.results[1].attributes["category"]
          # response.results[3].attributes["category"]

(***************************************************************************)
(* C6: an empty or missing image list gets the intake error with an empty  *)
(* results list, and the call decodes nothing and invokes no classifier.   *)
(***************************************************************************)
C6_EmptyBatchShortCircuits ==
    (HandlerDone /\ ~Truthy(RequestItems)) =>
        /\ response = [error |-> "No images provided", results |-> <<>>]
        /\ decoded = <<>>
        /\ calls = <<>>

\* a request whose "input" has no "images" was answered
C6_Witness ==
    /\ HandlerDone
    /\ "input" \in DOMAIN event
    /\ "images" \notin DOMAIN event.input
    /\ "error" \in DOMAIN response

(***************************************************************************)
(* C7: in a response that carries stats, total is the number of input      *)
(* items, successful and failed count the entries with success true and    *)
(* false, and total = successful + failed.                                 *)
(***************************************************************************)
C7_StatsCountEntries ==
    (HandlerDone /\ HasStats(response)) =>
        LET r == response.results
            st == response.stats
        IN  /\ st.total = Len(RequestItems)
            /\ st.successful = Cardinality({i \in DOMAIN r : r[i].success})
            /\ st.failed = Cardinality({i \in DOMAIN r : ~r[i].success})
            /\ st.total = st.successful + st.failed

\* the scenario of three items with the second corrupt
C7_Witness ==
    /\ HandlerDone
    /\ HasStats(response)
    /\ response.stats = [total |-> 3, successful |-> 2, failed |-> 1]
    /\ Len(RequestItems) = 3
    /\ ~Decodes(2)

(***************************************************************************)
(* C8: a failed model invocation is handled in one way across the service: *)
(* the batch handler and the single-image path either all degrade to the   *)
(* placeholder or all propagate the error.                                 *)
(* The batch handler degrades, analyze propagates.                         *)
(***************************************************************************)
C8_UniformFailurePolicy == Cardinality(policiesSeen) <= 1

(***************************************************************************)
(* C9: for a successfully processed image whose category is in none of the *)
(* valid-category sets the confidence map has entries for category, color, *)
(* pattern and gender and none for sleeveLength, neckline, length.         *)
(* The batch handler extracts no gender.                                   *)
(***************************************************************************)
Ungated(s) ==
    \A a \in ConditionalAttrs :
        s.attributes["category"] \notin ValidCategories(a)

C9_UngatedConfidenceKeys ==
    \A s \in BatchSets \cup SingleSets :
        Ungated(s) =>
            /\ {"category", "color", "pattern", "gender"}
                  \subseteq DOMAIN s.confidence
            /\ DOMAIN s.confidence \cap ConditionalAttrs = {}

\* C9 as amended: gender is an entry on the single-image path only
C9_UngatedConfidenceKeysByPath ==
    /\ \A s \in BatchSets :
          Ungated(s) =>
              DOMAIN s.confidence = {"category", "color", "pattern"}
    /\ \A s \in SingleSets :
          Ungated(s) =>
              DOMAIN s.confidence = {"category", "color", "pattern", "gender"}

\* a batch result for shoes
C9_Witness ==
    \E s \in BatchSets :
        /\ s.attributes["category"] = "shoes"
        /\ Ungated(s)
        /\ "category" \in DOMAIN s.confidence

(***************************************************************************)
(* C10: the single-image endpoint yields, for the same image and the same  *)
(* model outcomes, the success or failure, the attribute keys and the      *)
(* labels of handler called with a batch of that one image.                *)
(* The two paths differ in the gender key, in the labels and in what a     *)
(* failed model invocation leads to.                                       *)
(***************************************************************************)
C10_SingleImageMatchesBatch ==
    (EndpointDone /\ Truthy(Get(event, "image", None))) =>
        LET batch == Alone([data |-> event.image])
            batchOk == HasStats(batch) /\ batch.results[1].success
        IN  /\ response.success <=> batchOk
            /\ (response.success /\ batchOk) =>
                  ResultsSet(response.attributes).attributes
                      = batch.results[1].attributes

(***************************************************************************)
(* What the properties of the extractors read off a handler call.          *)
(***************************************************************************)
\* the images the call decoded, in input order
DecodedImages ==
    LET good == SelectSeq(decoded, LAMBDA d : Truthy(decode_image(d)))
    IN  List([k \in DOMAIN good |-> decode_image(good[k])])

\* the successful entries of the response, in order
SuccessEntries == SelectSeq(response.results, LAMBDA e : e.success)

\* the category the call reported for each decoded image
ReportedCategories ==
    List([k \in DOMAIN SuccessEntries |->
            SuccessEntries[k].attributes["category"]])

\* the classifier invocations of the call for attribute a
CallsFor(a) == SelectSeq(calls, LAMBDA c : c.attr = a)

\* the decoded images whose reported category is valid for a, in order
GatedImages(a) ==
    LET idx == SelectSeq(List([i \in DOMAIN ReportedCategories |-> i]),
                         LAMBDA i : ReportedCategories[i] \in ValidCategories(a))
    IN  List([k \in DOMAIN idx |-> DecodedImages[idx[k]]])

\* the arguments handler gives extract_conditional_attribute for a
LabelsOf(a) ==
    CASE a = "sleeveLength" -> SLEEVE_LENGTH_LABELS
      [] a = "neckline"     -> NECKLINE_LABELS
      [] a = "length"       -> LENGTH_LABELS

GateOf(a) ==
    CASE a = "sleeveLength" -> SLEEVE_CATEGORIES
      [] a = "neckline"     -> NECKLINE_CATEGORIES
      [] a = "length"       -> LENGTH_CATEGORIES

TemplateOf(a) ==
    CASE a = "sleeveLength" -> SleeveTemplate
      [] a = "neckline"     -> NecklineTemplate
      [] a = "length"       -> LengthTemplate

\* extract_conditional_attribute as the call ran it for a
ConditionalResults(a) ==
    extract_conditional_attribute(DecodedImages, ReportedCategories, a,
        LabelsOf(a), GateOf(a), TemplateOf(a), a \notin FaultsOf(calls))

\* what classifying image img on its own for a gives
ClassifiedAlone(img, a) ==
    AttrResult(a, batch_classify(<<img>>, Prompts(TemplateOf(a), LabelsOf(a)),
                                 a \notin FaultsOf(calls))[1])

\* the call reached the extraction stage
Extracted == HandlerDone /\ HasStats(response)

(***************************************************************************)
(* C11: when some category is valid, extract_conditional_attribute hands   *)
(* the classifier exactly the images of valid category, in their original  *)
(* order, and returns one position per image: the classification result   *)
(* of image i where categories[i] is valid, None elsewhere.                *)
(***************************************************************************)
C11_ScatterAligned ==
    Extracted =>
        \A a \in ConditionalAttrs :
            (\E i \in DOMAIN ReportedCategories :
                ReportedCategories[i] \in ValidCategories(a)) =>
                LET r == ConditionalResults(a)
                IN  /\ Len(CallsFor(a)) = 1
                    /\ CallsFor(a)[1].images = GatedImages(a)
                    /\ DOMAIN r = DOMAIN DecodedImages
                    /\ \A i \in DOMAIN r :
                          IF ReportedCategories[i] \in ValidCategories(a)
                          THEN /\ r[i] = ClassifiedAlone(DecodedImages[i], a)
                               /\ SuccessEntries[i].attributes[a] = r[i][a]
                               /\ SuccessEntries[i].confidence[a]
                                     = r[i]["confidence"]
                          ELSE ~Truthy(r[i])

\* shoes before a jacket: the one image of the sub-batch is the second image
C11_Witness ==
    /\ Extracted
    /\ Len(ReportedCategories) = 2
    /\ ReportedCategories = <<"shoes", "jacket">>
    /\ Len(CallsFor("sleeveLength")) = 1
    /\ "sleeveLength" \in DOMAIN SuccessEntries[2].attributes

(***************************************************************************)
(* C12: when no category is valid for an attribute,                        *)
(* extract_conditional_attribute returns None for every image, one per     *)
(* image, and the classifier is not invoked for that attribute.            *)
(***************************************************************************)
C12_NoValidCategoryNoCall ==
    Extracted =>
        \A a \in ConditionalAttrs :
            (\A i \in DOMAIN ReportedCategories :
                ReportedCategories[i] \notin ValidCategories(a)) =>
                /\ CallsFor(a) = <<>>
                /\ DOMAIN ConditionalResults(a) = DOMAIN DecodedImages
                /\ \A i \in DOMAIN DecodedImages :
                      /\ ~Truthy(ConditionalResults(a)[i])
                      /\ a \notin DOMAIN SuccessEntries[i].attributes

\* two skirts: valid for length, for neither sleeveLength nor neckline
C12_Witness ==
    /\ Extracted
    /\ ReportedCategories = <<"skirt", "skirt">>
    /\ CallsFor("sleeveLength") = <<>>
    /\ CallsFor("length") # <<>>
    /\ Len(calls) = 4

(***************************************************************************)
(* C13: in every handler call and every analyze call the category pass is  *)
(* the first model invocation, so it is complete before a conditional      *)
(* extractor starts, and a conditional extractor classifies exactly the    *)
(* images whose category, as that pass of the same call produced it, is    *)
(* valid for its attribute.                                                *)
(***************************************************************************)
C13_CategoryPassGatesConditionals ==
    /\ HandlerDone =>
          \A k \in DOMAIN calls :
              /\ (calls[k].attr = "category") = (k = 1)
              /\ calls[k].attr \in ConditionalAttrs =>
                    /\ calls[1].images = DecodedImages
                    /\ calls[k].images = GatedImages(calls[k].attr)
    /\ (AnalyzeDone \/ EndpointDone) =>
          \A k \in DOMAIN calls :
              /\ (calls[k].attr = "category") = (k = 1)
              /\ calls[k].attr \in ConditionalAttrs =>
                    /\ calls[k].images = calls[1].images
                    /\ calls[1].ok
                    /\ extract_category(calls[1].images[1])["category"]
                          \in ValidCategories(calls[k].attr)

\* a jacket between two pairs of shoes, and the colour pass failing: the
\* sleeve pass is the fourth invocation and classifies the jacket alone
C13_Witness ==
    /\ HandlerDone
    /\ Len(calls) = 4
    /\ ReportedCategories = <<"shoes", "jacket", "shoes">>
    /\ calls[4].attr = "sleeveLength"
    /\ Len(calls[4].images) = 1
    /\ ~calls[2].ok

\* the vocabulary and the template of each batch_classify call of handler
BatchLabels(a) ==
    CASE a = "category" -> CATEGORY_LABELS
      [] a = "color"    -> COLOR_LABELS
      [] a = "pattern"  -> PATTERN_LABELS
      [] OTHER          -> LabelsOf(a)

BatchTemplate(a) ==
    CASE a = "category" -> CategoryTemplate
      [] a = "color"    -> ColorTemplate
      [] a = "pattern"  -> PatternTemplate
      [] OTHER          -> TemplateOf(a)

(***************************************************************************)
(* C14: batch_classify returns one result per input image, in input order: *)
(* when the model invocation succeeds, result i holds the label of the     *)
(* prompt that wins for image i and its probability; when it fails, every  *)
(* image gets the placeholder of label "unknown" and confidence 0.         *)
(* The code reports the last word of the winning prompt, which is its      *)
(* label only for the category template.                                   *)
(***************************************************************************)
C14_OneResultPerImage ==
    HandlerDone =>
        \A k \in DOMAIN calls :
            LET labels  == BatchLabels(calls[k].attr)
                prompts == Prompts(BatchTemplate(calls[k].attr), labels)
                r == batch_classify(calls[k].images, prompts, calls[k].ok)
            IN  /\ DOMAIN r = DOMAIN calls[k].images
                /\ \A i \in DOMAIN r :
                      IF calls[k].ok
                      THEN LET probs == Probs(calls[k].images[i], prompts)
                           IN  r[i] = [label      |-> labels[ArgMax(probs)],
                                       confidence |-> probs[ArgMax(probs)]]
                      ELSE r[i] = [label |-> "unknown", confidence |-> 0]

(***************************************************************************)
(* C15: handler lets no exception out: whatever the event (no input, an    *)
(* input or an item that is no mapping, a decode or a model invocation     *)
(* that fails), its response is a mapping with "results" and "stats", or   *)
(* with "error" and an empty "results".                                    *)
(***************************************************************************)
C15_HandlerNeverRaises ==
    HandlerDone =>
        /\ ~Raised(response)
        /\ \/ {"results", "stats"} \subseteq DOMAIN response
           \/ /\ {"error", "results"} \subseteq DOMAIN response
              /\ response.results = <<>>

\* a batch whose second item is a string: the first item was decoded, then
\* item.get raised and the except clause answered
C15_Witness ==
    /\ HandlerDone
    /\ IsMapping(event)
    /\ "input" \in DOMAIN event
    /\ IsMapping(event.input)
    /\ "images" \in DOMAIN event.input
    /\ Len(event.input.images) = 2
    /\ ~IsMapping(event.input.images[2])
    /\ decoded = <<<<"b64", "img_dress">>>>
    /\ response = [error |-> "'str' object has no attribute 'get'",
                   results |-> <<>>]

\* the conditional attributes for which some decoded image has a valid
\* category
Applicable ==
    {a \in ConditionalAttrs :
        \E i \in DOMAIN ReportedCategories :
            ReportedCategories[i] \in ValidCategories(a)}

(***************************************************************************)
(* C16: a handler call in which at least one image decodes invokes the     *)
(* classifier 3 + k times, k being the number of conditional attributes    *)
(* whose valid-category set holds the extracted category of some decoded   *)
(* image; the first invocation is the category pass, and every image an    *)
(* invocation receives is one of the decoded images.                       *)
(***************************************************************************)
C16_ClassifierInvocationCount ==
    (HandlerDone /\ \E i \in DOMAIN RequestItems : Decodes(i)) =>
        /\ Len(calls) = 3 + Cardinality(Applicable)
        /\ calls[1].attr = "category"
        /\ Len(DecodedImages)
              = Cardinality({i \in DOMAIN RequestItems : Decodes(i)})
        /\ \A k \in DOMAIN calls :
              /\ Len(calls[k].images) <= Len(DecodedImages)
              /\ \A j \in DOMAIN calls[k].images :
                    /\ Truthy(calls[k].images[j])
                    /\ calls[k].images[j] \in Range(DecodedImages)

\* a corrupt item between a skirt and a pair of shoes: the three passes over
\* both images and the length pass over the skirt
C16_Witness ==
    /\ HandlerDone
    /\ Len(RequestItems) = 3
    /\ Decodes(1) /\ ~Decodes(2) /\ Decodes(3)
    /\ ReportedCategories = <<"skirt", "shoes">>
    /\ Len(calls) = 4
    /\ Len(calls[1].images) = 2
    /\ calls[4].attr = "length"
    /\ Len(calls[4].images) = 1

EncodeDone == pc = "done" /\ endpoint = "encode_batch_endpoint"

\* the image list of the request to encode_batch_endpoint
RequestImages == Get(event, "images", <<>>)

(***************************************************************************)
(* C17: encode_batch_endpoint hands encode_image_batch the consecutive     *)
(* chunks of at most 32 images of the list, one call per chunk in order;   *)
(* when every call succeeds the response holds the embedding of every      *)
(* image in input order and count is the number of images.  An empty list  *)
(* makes no call and gives count 0.                                        *)
(***************************************************************************)
C17_ChunksOfThirtyTwo ==
    EncodeDone =>
        LET n == Len(RequestImages)
        IN  /\ \A k \in DOMAIN calls :
                  /\ Len(calls[k]) \in 1..32
                  /\ calls[k] = SubSeq(RequestImages, 32 * (k - 1) + 1,
                                       IF 32 * k < n THEN 32 * k ELSE n)
            /\ (\A i \in 1..n : RequestImages[i].is_image) =>
                  /\ Len(calls) = (n + 31) \div 32
                  /\ response.success
                  /\ response.count = n
                  /\ response.embeddings =
                        [i \in 1..n |->
                            [embedding_of |-> RequestImages[i].picture]]
            /\ n = 0 => calls = <<>> /\ response.count = 0

\* 70 images: two chunks of 32 and one of 6
C17_Witness ==
    /\ EncodeDone
    /\ Len(RequestImages) = 70
    /\ ~Raised(response)
    /\ Len(calls) = 3
    /\ Len(calls[3]) = 6
    /\ response.count = 70

====
